---- MODULE Spec2Model ----
(***************************************************************************)
(* Model of src/src/firehose.rs: the three-phase block stream of           *)
(* Firehose::blocks (archive, live finalized, hot) and the helpers it      *)
(* uses.  The two data sources are the environment: they answer height     *)
(* queries, deliver ascending batches inside the requested range, and the  *)
(* hot source delivers updates {base_head, blocks} whose blocks extend     *)
(* base_head.  Any upstream call may fail.                                 *)
(*                                                                         *)
(* Hexadecimal text is the sequence of the characters after "0x", each a   *)
(* digit value 0..15, or 16 for a character that is no hex digit.  Byte    *)
(* buffers are sequences of 0..255.  Option<T> is <<>> or <<x>>.           *)
(*                                                                         *)
(* The blocks of the stream carry no transactions, logs or traces, so      *)
(* their conversion fails only through the header (a quantity that is no   *)
(* hex number or is too wide).  Block hashes are well-formed hex text, as  *)
(* the data sources deliver them.  One step of the stream handles one      *)
(* batch or one hot update; a consumer that stops pulling is a behaviour   *)
(* that stutters.                                                          *)
(*                                                                         *)
(* Firehose::block, the single-block fetch, is modelled with blocks that   *)
(* carry transactions, logs and traces: the conversion of a whole raw      *)
(* block is checked there.  The transactions of a block have distinct      *)
(* indices and every log and trace belongs to one of them.  An outcome is  *)
(* "ok", "err" (a failure value, returned with ?) or "panic" (an unwrap    *)
(* on an absent value or on text that does not parse).                     *)
(***************************************************************************)
EXTENDS Integers, Sequences, FiniteSets

\* ---------------------------------------------------------------- bounds
\* Heights of the small datasets: 0..MaxHeight.
MaxHeight == 2
\* How far the live chain tip is ahead of the live finalized height.
HotDepth == 1
\* Largest number of blocks in one batch / one hot update.
MaxBatch == 2
\* Largest number of hot updates in one run.
MaxUpdates == 2
\* Width of the signed start height (i64 in the source), scaled down.
IntBits == 7
\* Largest number of transactions in a raw block.
MaxTx == 2
\* Largest number of logs in a raw block.
MaxLogs == 3
\* Largest number of traces in a raw block.
MaxTraces == 2

VARIABLES
    pc,              \* where the request is
    request,         \* [start_block_num, stop_block_num, transforms], or
                     \* [reference] for a single-block request
    reply,           \* what the archive answers to a single-block fetch
    logs,            \* the log filters translated from the transforms
    streams,         \* for each fetch issued, what became of its stream
    archive_height,  \* the archive's finalized height
    rpc_height,      \* the live source's finalized height
    live_head,       \* the height of the live chain tip (hot blocks end there)
    sparse,          \* the sources leave out blocks (the filters match only some)
    from_block,      \* the forward cursor
    to_block,        \* Option: the stop height
    state,           \* Option<HashAndHeight>: the head marker of Phases A/B
    last_head,       \* the head tracked in Phase C
    out,             \* the responses yielded so far
    err,             \* why the stream failed, "" while it has not
    cur,             \* the active finalized fetch: next height it can deliver
    hi,              \* the active finalized fetch: last height of its range
    fetches,         \* the fetches and subscriptions issued so far
    reorged,         \* the hot source has sent base_head /= tracked head
    nUpd,            \* hot updates received
    upd,             \* Option: the last hot update's base_head
    batch,           \* Option: the last batch delivered, with Len(out) before it
    endCause         \* why the stream ended normally, "" while it has not

vars == <<pc, request, archive_height, rpc_height, live_head, from_block, to_block,
          state, last_head, out, err, cur, hi, fetches, reorged, nUpd, upd, batch,
          endCause, sparse, reply, logs, streams>>

IntMin == -(2 ^ (IntBits - 1))
IntMax == (2 ^ (IntBits - 1)) - 1

None == <<>>
Some(x) == <<x>>
Unwrap(o) == o[1]

Min(a, b) == IF a < b THEN a ELSE b

\* ------------------------------------------------------- pure functions
\* prefix_hex::decode: an even number of hex digits, paired into bytes.
PrefixHexDecode(t) ==
    IF (\A i \in 1..Len(t) : t[i] \in 0..15) /\ Len(t) % 2 = 0
    THEN [ok |-> TRUE, bytes |-> [i \in 1..(Len(t) \div 2) |-> t[2 * i - 1] * 16 + t[2 * i]]]
    ELSE [ok |-> FALSE, bytes |-> <<>>]

RECURSIVE HexValue(_)
HexValue(t) ==
    IF Len(t) = 0 THEN 0
    ELSE HexValue(SubSeq(t, 1, Len(t) - 1)) * 16 + t[Len(t)]

\* qty2int: u64::from_str_radix(digits, 16); the unsigned width is IntBits.
qty2int(t) ==
    IF Len(t) > 0 /\ (\A i \in 1..Len(t) : t[i] \in 0..15) /\ HexValue(t) < 2 ^ IntBits
    THEN [ok |-> TRUE, value |-> HexValue(t)]
    ELSE [ok |-> FALSE, value |-> 0]

\* u64::to_string: the decimal digits, most significant first.
RECURSIVE to_string(_)
to_string(n) ==
    IF n < 10 THEN <<n>> ELSE to_string(n \div 10) \o <<n % 10>>

\* u64::saturating_sub
SaturatingSubWrapping(a, b) == (a - b) % (2 ^ IntBits)
SaturatingSub(a, b) == IF a >= b THEN a - b ELSE 0

\* resolve_negative_start: the set of outcomes the build can produce.
\* abs() of the minimum overflows: a panic with overflow checks, otherwise it
\* wraps to the minimum itself and u64::try_from fails.
resolve_negative_start(start_block_num, head) ==
    IF start_block_num < 0
    THEN IF start_block_num = IntMin
         THEN {[kind |-> "err", why |-> "try_from", value |-> 0],
               [kind |-> "panic", why |-> "abs_overflow", value |-> 0]}
         ELSE IF head.ok
              THEN {[kind |-> "ok", why |-> "",
                     value |-> SaturatingSub(head.value, -start_block_num)]}
              ELSE {[kind |-> "err", why |-> "upstream", value |-> 0]}
    ELSE {[kind |-> "ok", why |-> "", value |-> start_block_num]}

\* str::parse::<u64> reads a decimal number: the number a sequence of
\* decimal digits denotes.
RECURSIVE DecimalValue(_)
DecimalValue(d) ==
    IF Len(d) = 0 THEN 0
    ELSE DecimalValue(SubSeq(d, 1, Len(d) - 1)) * 10 + d[Len(d)]

\* cursor.parse(): the text must be decimal digits of a number of the
\* unsigned width.
ParseU64(text) ==
    IF Len(text) > 0 /\ (\A i \in 1..Len(text) : text[i] \in 0..9)
       /\ DecimalValue(text) < 2 ^ IntBits
    THEN [ok |-> TRUE, value |-> DecimalValue(text)]
    ELSE [ok |-> FALSE, value |-> 0]

\* prefix_hex::encode: two hex digits per byte.
PrefixHexEncode(bytes) ==
    [i \in 1..(2 * Len(bytes)) |->
        IF i % 2 = 1 THEN bytes[(i + 1) \div 2] \div 16 ELSE bytes[i \div 2] % 16]

\* CombinedFilter::decode of a transform's payload: a payload is a message
\* that decodes to its log filters, or bytes that do not decode.
CombinedFilterDecode(payload) ==
    [ok |-> payload.valid, log_filters |-> IF payload.valid THEN payload.log_filters ELSE <<>>]

\* The LogRequest of one log filter.
LogRequest(log_filter) ==
    [address |-> [i \in 1..Len(log_filter.addresses) |->
                     PrefixHexEncode(log_filter.addresses[i])],
     topic0 |-> [i \in 1..Len(log_filter.event_signatures) |->
                    PrefixHexEncode(log_filter.event_signatures[i])]]

\* The loop over request.transforms: acc is the list built so far; the first
\* payload that does not decode ends it with the error.
RECURSIVE TranslateFilters(_, _)
TranslateFilters(transforms, acc) ==
    IF transforms = <<>> THEN [ok |-> TRUE, logs |-> acc]
    ELSE LET filter == CombinedFilterDecode(Head(transforms))
         IN  IF ~filter.ok
             THEN [ok |-> FALSE, logs |-> acc]
             ELSE TranslateFilters(Tail(transforms),
                      acc \o [i \in 1..Len(filter.log_filters) |->
                                 LogRequest(filter.log_filters[i])])

\* The DataRequest of a fetch or subscription.
DataRequestNoLogs(from, to, filters) ==
    [from |-> from, to |-> to, logs |-> <<>>, transactions |-> <<>>]
DataRequest(from, to, filters) ==
    [from |-> from, to |-> to, logs |-> filters, transactions |-> <<>>]

\* The stream of the last fetch goes out of scope: how is "exhausted" when
\* it had returned its last item, "dropped" when an error ended the phase.
KeepStream(ss, how) == ss
EndStream(ss, how) ==
    IF ss /= <<>> /\ ss[Len(ss)] = "open" THEN [ss EXCEPT ![Len(ss)] = how] ELSE ss

\* ------------------------------------------------------------ the chain
Forks == {0, 1}
\* The hash text of the block at height h on fork f: four hex digits.
HashOf(h, f) == <<0, f, (h \div 16) % 16, h % 16>>
ZeroHash == <<0, 0, 0, 0>>
GoodQty == <<5>>
\* "0xzz" (no hex digits) and a quantity wider than the unsigned width.
BadQtys == {<<16, 16>>, <<15, 15, 15>>}

HashAndHeight(hash, height) == [hash |-> hash, height |-> height]
\* The fork a head is on.
ForkOf(head) == head.hash[2]

\* A raw block without transactions, logs or traces.
RawBlock(h, f, gas) ==
    [header |-> [hash |-> HashOf(h, f),
                 parent_hash |-> IF h = 0 THEN ZeroHash ELSE HashOf(h - 1, f),
                 number |-> h,
                 gas_limit |-> gas],
     transactions |-> <<>>, logs |-> <<>>, traces |-> <<>>]

\* TryFrom<BlockHeader> for pbcodec::BlockHeader (the fields kept here).
TryFromBlockHeader(value) ==
    LET ph == PrefixHexDecode(value.parent_hash)
        gl == qty2int(value.gas_limit)
        hs == PrefixHexDecode(value.hash)
    IN  [ok |-> ph.ok /\ gl.ok /\ hs.ok,
         header |-> [parent_hash |-> ph.bytes, number |-> value.number,
                     gas_limit |-> gl.value, hash |-> hs.bytes]]

\* vec_from_hex: an odd number of digits gets a leading zero digit.
vec_from_hex(value) ==
    IF Len(value) % 2 /= 0 THEN PrefixHexDecode(<<0>> \o value) ELSE PrefixHexDecode(value)

\* Option::unwrap_or_default for an optional list or text.
unwrap_or_default(o) == IF o = None THEN <<>> ELSE Unwrap(o)

\* The address a transaction without a recipient gets: "0x00..00".
ZeroAddress == <<0, 0>>

\* TryFrom<Transaction> for pbcodec::TransactionTrace (the fields kept here).
TryFromTransaction(value) ==
    LET to == PrefixHexDecode(IF value.to = None THEN ZeroAddress ELSE Unwrap(value.to))
        gas == qty2int(value.gas)
    IN  [ok |-> to.ok /\ gas.ok,
         trace |-> [to |-> to.bytes, gas_limit |-> gas.value,
                    index |-> value.transaction_index,
                    receipt |-> None, calls |-> <<>>]]

\* logs_by_tx / traces_by_tx: one more item pushed on its group.
GroupPushFront(group, item) == <<item>> \o group
GroupPush(group, item) == Append(group, item)

\* The HashMap built from the block's logs (or traces): the pairs
\* <<transaction_index, group>>, one per index, each group in insertion
\* order.
RECURSIVE GroupByTx(_, _)
GroupByTx(items, map) ==
    IF items = <<>> THEN map
    ELSE LET item == Head(items)
             key == item.transaction_index
         IN  GroupByTx(Tail(items),
                 IF \E p \in map : p[1] = key
                 THEN {IF p[1] = key THEN <<key, GroupPush(p[2], item)>> ELSE p : p \in map}
                 ELSE map \cup {<<key, <<item>>>>})

\* HashMap::remove: the group of the key, if any, and the map without it.
MapRemove(map, key) ==
    [value |-> IF \E p \in map : p[1] = key
               THEN Some((CHOOSE p \in map : p[1] = key)[2])
               ELSE None,
     map |-> {p \in map : p[1] /= key}]

\* The pbcodec::Log of a raw log; each decode is unwrapped.
ConvertLog(log) ==
    LET address == PrefixHexDecode(log.address)
        data == PrefixHexDecode(log.data)
        topics == [i \in 1..Len(log.topics) |-> PrefixHexDecode(log.topics[i])]
    IN  [panic |-> ~address.ok \/ ~data.ok \/ \E i \in 1..Len(topics) : ~topics[i].ok,
         log |-> [address |-> address.bytes, data |-> data.bytes,
                  block_index |-> log.log_index,
                  topics |-> [i \in 1..Len(topics) |-> topics[i].bytes],
                  index |-> log.transaction_index, ordinal |-> 0]]

\* The trace kinds that become a call entry.
IsCallTraceCallOnly(type) == type = "Call"
IsCallTrace(type) == type \in {"Create", "Call"}

\* call_type of a call entry.
CallTypeOf(type, action) ==
    IF type = "Create" THEN [ok |-> TRUE, value |-> 5]
    ELSE IF action.type = None THEN [ok |-> FALSE, value |-> 0]
    ELSE [ok |-> TRUE,
          value |-> CASE Unwrap(action.type) = "Call" -> 1
                      [] Unwrap(action.type) = "Callcode" -> 2
                      [] Unwrap(action.type) = "Delegatecall" -> 3
                      [] OTHER -> 4]

\* A field taken out of the optional result: result.unwrap().field.unwrap().
ResultField(result, field) ==
    IF result = None \/ Unwrap(result)[field] = None
    THEN [ok |-> FALSE, value |-> <<>>]
    ELSE [ok |-> TRUE, value |-> Unwrap(Unwrap(result)[field])]

\* field.unwrap() of an action.
ActionField(action, field) ==
    IF action[field] = None THEN [ok |-> FALSE, value |-> <<>>]
    ELSE [ok |-> TRUE, value |-> Unwrap(action[field])]

\* address of a call entry.
TraceAddress(type, action, result) ==
    IF type = "Create" THEN ResultField(result, "address") ELSE ActionField(action, "to")

\* gas_used of a call entry: "0x0" for a Call without result.
TraceGasUsedStrict(type, result) == ResultField(result, "gas_used")
TraceGasUsed(type, result) ==
    IF type = "Create" THEN ResultField(result, "gas_used")
    ELSE IF result /= None THEN ResultField(result, "gas_used")
    ELSE [ok |-> TRUE, value |-> <<0>>]

\* output of a call entry: "0x" for a Create and for a Call without result.
TraceOutput(type, result) ==
    IF type = "Create" THEN [ok |-> TRUE, value |-> <<>>]
    ELSE IF result /= None THEN ResultField(result, "output")
    ELSE [ok |-> TRUE, value |-> <<>>]

\* input of a call entry: "0x" for a Create.
TraceInput(type, action) ==
    IF type = "Create" THEN [ok |-> TRUE, value |-> <<>>] ELSE ActionField(action, "input")

\* status_failed, status_reverted and failure_reason of a call entry.
StatusFailedOnError(trace) == trace.error /= None
StatusFailed(trace) == trace.error /= None \/ trace.revert_reason /= None
StatusReverted(trace) == trace.revert_reason /= None
FailureReason(trace) ==
    IF trace.error /= None THEN Unwrap(trace.error)
    ELSE unwrap_or_default(trace.revert_reason)

\* The fields a call entry is made of, as the matches of the closure take
\* them from the trace, its action and its result: each is [ok, value], ok
\* FALSE when an unwrap meets an absent value.
TraceFields(trace, action) ==
    [call_type |-> CallTypeOf(trace.type, action),
     caller |-> ActionField(action, "from"),
     address |-> TraceAddress(trace.type, action, trace.result),
     value |-> ActionField(action, "value"),
     gas |-> ActionField(action, "gas"),
     gas_used |-> TraceGasUsed(trace.type, trace.result),
     output |-> TraceOutput(trace.type, trace.result),
     input |-> TraceInput(trace.type, action)]

FieldsPresent(f) ==
    /\ f.call_type.ok /\ f.caller.ok /\ f.address.ok /\ f.value.ok
    /\ f.gas.ok /\ f.gas_used.ok /\ f.output.ok /\ f.input.ok

\* The texts of the fields parsed, each parse unwrapped.
ParsedFields(f) ==
    [caller |-> vec_from_hex(f.caller.value),
     address |-> vec_from_hex(f.address.value),
     value |-> vec_from_hex(f.value.value),
     gas_limit |-> qty2int(f.gas.value),
     gas_consumed |-> qty2int(f.gas_used.value),
     return_data |-> vec_from_hex(f.output.value),
     input |-> vec_from_hex(f.input.value)]

FieldsParse(d) ==
    /\ d.caller.ok /\ d.address.ok /\ d.value.ok /\ d.gas_limit.ok
    /\ d.gas_consumed.ok /\ d.return_data.ok /\ d.input.ok

\* The pbcodec::Call of a trace (the fields kept here).
CallEntry(trace, f, d) ==
    [index |-> 0, parent_index |-> 0, depth |-> 0,
     call_type |-> f.call_type.value,
     caller |-> d.caller.bytes,
     address |-> d.address.bytes,
     value |-> d.value.bytes,
     gas_limit |-> d.gas_limit.value,
     gas_consumed |-> d.gas_consumed.value,
     return_data |-> d.return_data.bytes,
     input |-> d.input.bytes,
     status_failed |-> StatusFailed(trace),
     status_reverted |-> StatusReverted(trace),
     failure_reason |-> FailureReason(trace)]

CallOfParsed(trace, f, d) ==
    IF FieldsParse(d) THEN [kind |-> "call", call |-> CallEntry(trace, f, d)]
    ELSE [kind |-> "panic", call |-> <<>>]

CallOfFields(trace, f) ==
    IF FieldsPresent(f) THEN CallOfParsed(trace, f, ParsedFields(f))
    ELSE [kind |-> "panic", call |-> <<>>]

\* The closure of filter_map over a transaction's traces: kind is "none" for
\* a trace that is filtered out, "call" for a call entry, "panic" when an
\* unwrap meets an absent field or text that does not parse.
TraceToCall(trace) ==
    IF ~IsCallTrace(trace.type) THEN [kind |-> "none", call |-> <<>>]
    ELSE IF trace.action = None THEN [kind |-> "panic", call |-> <<>>]
    ELSE CallOfFields(trace, TraceFields(trace, Unwrap(trace.action)))

\* tx_trace.receipt = Some(receipt)
WithoutReceipt(tx_trace, receipt) == tx_trace
WithReceipt(tx_trace, receipt) == [tx_trace EXCEPT !.receipt = Some(receipt)]

\* The end of the closure of map: the transaction trace made of the
\* converted logs, the calls made of the traces, the parsed cumulative gas
\* and the converted transaction.  kind is "ok", "err" (a ? met an error) or
\* "panic" (an unwrap did).
TraceOfParts(converted, made, cumulative_gas_used, tx_trace) ==
    LET kept == SelectSeq(made, LAMBDA c : c.kind = "call")
        calls == [i \in 1..Len(kept) |-> kept[i].call]
        receipt == [state_root |-> <<>>,
                    cumulative_gas_used |-> cumulative_gas_used.value,
                    logs |-> [i \in 1..Len(converted) |-> converted[i].log]]
    IN  IF (\E i \in 1..Len(converted) : converted[i].panic)
           \/ (\E i \in 1..Len(made) : made[i].kind = "panic")
        THEN [kind |-> "panic", trace |-> <<>>]
        ELSE IF ~cumulative_gas_used.ok \/ ~tx_trace.ok
        THEN [kind |-> "err", trace |-> <<>>]
        ELSE [kind |-> "ok",
              trace |-> [WithReceipt(tx_trace.trace, receipt) EXCEPT !.calls = calls]]

\* The closure of map over the block's transactions, for one transaction
\* and the groups removed for it.
TransactionToTrace(tx, log_group, trace_group) ==
    TraceOfParts([i \in 1..Len(log_group) |-> ConvertLog(log_group[i])],
                 [i \in 1..Len(trace_group) |-> TraceToCall(trace_group[i])],
                 qty2int(tx.cumulative_gas_used),
                 TryFromTransaction(tx))

RECURSIVE TransactionTraces(_, _, _, _)
\* collect() given the result for one transaction: the first failure ends it.
Collected(one, txs, logs_by_tx, traces_by_tx, acc) ==
    IF one.kind /= "ok"
    THEN [kind |-> one.kind, traces |-> <<>>]
    ELSE TransactionTraces(txs, logs_by_tx, traces_by_tx,
                           [acc EXCEPT !.traces = Append(@, one.trace)])

\* The map over the block's transactions, collected: it stops at the first
\* transaction that fails.  acc is [kind, traces]; the two maps lose the
\* groups that were removed.
TransactionTraces(txs, logs_by_tx, traces_by_tx, acc) ==
    IF txs = <<>> THEN acc
    ELSE LET tx == Head(txs)
             lg == MapRemove(logs_by_tx, tx.transaction_index)
             tg == MapRemove(traces_by_tx, tx.transaction_index)
         IN  Collected(TransactionToTrace(tx, unwrap_or_default(lg.value),
                                          unwrap_or_default(tg.value)),
                       Tail(txs), lg.map, tg.map, acc)

\* The end of TryFrom<Block>: the collected transaction traces, then the
\* block's hash and header; kind is "ok", "err" or "panic", and ok says that
\* kind is "ok".
CollectBlock(value, transaction_traces, hs, hd) ==
    [ok |-> transaction_traces.kind = "ok" /\ hs.ok /\ hd.ok,
     kind |-> IF transaction_traces.kind /= "ok" THEN transaction_traces.kind
              ELSE IF hs.ok /\ hd.ok THEN "ok" ELSE "err",
     block |-> [ver |-> 2, hash |-> hs.bytes, number |-> value.header.number,
                header |-> hd.header,
                transaction_traces |-> transaction_traces.traces]]

\* TryFrom<Block> for pbcodec::Block.
TryFromBlock(value) ==
    CollectBlock(value,
                 TransactionTraces(value.transactions, GroupByTx(value.logs, {}),
                                   GroupByTx(value.traces, {}),
                                   [kind |-> "ok", traces |-> <<>>]),
                 PrefixHexDecode(value.header.hash),
                 TryFromBlockHeader(value.header))

\* ------------------------------------------------------------ responses
\* The Response yielded for a converted block.  phase and ref are
\* bookkeeping: the phase that yielded it and the height of the raw block.
NewResponse(graph_block, phase, ref) ==
    [block |-> graph_block, step |-> "New", cursor |-> to_string(graph_block.number),
     phase |-> phase, ref |-> ref]

\* The synthetic block of an Undo: pbcodec::Block::default() with a header
\* that carries only number and parent_hash.
UndoBlock(height, parent_bytes) ==
    [ver |-> 0, hash |-> <<>>, number |-> 0,
     header |-> [parent_hash |-> parent_bytes, number |-> height,
                 gas_limit |-> 0, hash |-> <<>>],
     transaction_traces |-> <<>>]

UndoCursorOfBase(head, update) == to_string(update.base_head.height)
UndoCursor(head, update) == to_string(head.height)

UndoNumberOfBase(head, update) == update.base_head.height
UndoNumber(head, update) == head.height

UndoParentOfHead(head, update) == PrefixHexDecode(head.hash)
UndoParent(head, update) == PrefixHexDecode(update.base_head.hash)

\* The Undo yielded when a fork happened; head is the head tracked before
\* the update.  ref is bookkeeping: that head's height.
UndoResponse(head, update) ==
    [block |-> UndoBlock(UndoNumber(head, update), UndoParent(head, update).bytes),
     step |-> "Undo", cursor |-> UndoCursor(head, update),
     phase |-> "C", ref |-> head.height]

\* from_block after a block of Phase A is accepted.
NextFromSame(number) == number
NextFrom(number) == number + 1

\* from_block after Phase B's fetch, which ended at height to.
NextFromLiveSame(to) == to
NextFromLive(to) == to + 1

\* The body of Phase A's loop over one batch: st is
\* [state, from_block, out, failed].  A failed conversion leaves the loop.
RECURSIVE ArchiveBlocks(_, _)
ArchiveBlocks(blocks, st) ==
    IF blocks = <<>> \/ st.failed THEN st
    ELSE LET block == Head(blocks)
             st1 == [st EXCEPT !.state = Some(HashAndHeight(block.header.hash,
                                                            block.header.number)),
                               !.from_block = NextFrom(block.header.number)]
             graph_block == TryFromBlock(block)
         IN  IF ~graph_block.ok
             THEN [st1 EXCEPT !.failed = TRUE]
             ELSE ArchiveBlocks(Tail(blocks),
                      [st1 EXCEPT !.out = Append(@, NewResponse(graph_block.block, "A",
                                                               block.header.number))])

\* A loop that drops a block it cannot convert and goes on with the next.
RECURSIVE EmitBlocksSkipping(_, _, _)
EmitBlocksSkipping(blocks, st, phase) ==
    IF blocks = <<>> THEN st
    ELSE LET block == Head(blocks)
             graph_block == TryFromBlock(block)
         IN  EmitBlocksSkipping(Tail(blocks),
                 IF graph_block.ok
                 THEN [st EXCEPT !.out = Append(@, NewResponse(graph_block.block, phase,
                                                              block.header.number))]
                 ELSE st,
                 phase)

\* The loop over one batch in Phases B and C: st is [out, failed].
RECURSIVE EmitBlocks(_, _, _)
EmitBlocks(blocks, st, phase) ==
    IF blocks = <<>> \/ st.failed THEN st
    ELSE LET block == Head(blocks)
             graph_block == TryFromBlock(block)
         IN  IF ~graph_block.ok
             THEN [st EXCEPT !.failed = TRUE]
             ELSE EmitBlocks(Tail(blocks),
                      [st EXCEPT !.out = Append(@, NewResponse(graph_block.block, phase,
                                                              block.header.number))],
                      phase)

\* The last height of Phase B's fetch.
PhaseBToStop(stop, height) == IF stop /= None THEN Unwrap(stop) ELSE height
PhaseBTo(stop, height) == IF stop /= None THEN Min(Unwrap(stop), height) ELSE height

\* The stop checks that end Phases A and B.
StopReachedNever(marker, stop) == FALSE
StopReached(marker, stop) == Unwrap(marker).height = Unwrap(stop)

\* The fork test of Phase C.
ForkHappenedByHeight(base_head, head) == base_head.height /= head.height
ForkHappened(base_head, head) == base_head /= head

\* The tracked head after an update.
NewHeadOfBase(update) == update.base_head
NewHead(update) ==
    IF update.blocks = <<>>
    THEN update.base_head
    ELSE LET header == update.blocks[Len(update.blocks)].header
         IN  HashAndHeight(header.hash, header.number)

\* A Phase C loop body that honours the stop height: it drops the blocks
\* above to_block.
HotUpdateBounded(update, head, responses) ==
    LET fork == ForkHappened(update.base_head, head)
        out1 == IF fork THEN Append(responses, UndoResponse(head, update)) ELSE responses
        keep == SelectSeq(update.blocks,
                          LAMBDA b : to_block = None \/ b.header.number <= Unwrap(to_block))
        st == EmitBlocks(keep, [out |-> out1, failed |-> FALSE], "C")
    IN  [out |-> st.out, failed |-> st.failed,
         last_head |-> IF st.failed THEN head ELSE NewHead(update)]

\* One hot update (the body of Phase C's loop): the result is
\* [out, failed, last_head].
HotUpdate(update, head, responses) ==
    LET fork == ForkHappened(update.base_head, head)
        ok == ~fork \/ UndoParent(head, update).ok
        out1 == IF fork /\ ok
                THEN Append(responses, UndoResponse(head, update))
                ELSE responses
        st == EmitBlocks(update.blocks, [out |-> out1, failed |-> FALSE], "C")
    IN  IF ~ok
        THEN [out |-> responses, failed |-> TRUE, last_head |-> head]
        ELSE [out |-> st.out, failed |-> st.failed,
              last_head |-> IF st.failed THEN head ELSE NewHead(update)]

\* ---------------------------------------------------------- the sources
\* The ascending batches a finalized fetch can deliver from heights lo..top:
\* the next heights in turn, or, from a sparse source, any ascending ones.
Batches(lo, top) ==
    {s \in UNION {[1..n -> lo..top] : n \in 1..MaxBatch} :
        /\ \A i \in 1..(Len(s) - 1) : s[i] < s[i + 1]
        /\ sparse \/ \A i \in 1..Len(s) : s[i] = lo + i - 1}

\* The raw blocks of a batch of heights on fork f; block number bad (0: none)
\* carries the quantity q, which does not convert.
BlocksOf(heights, f, bad, q) ==
    [i \in 1..Len(heights) |-> RawBlock(heights[i], f, IF i = bad THEN q ELSE GoodQty)]

\* The last height the archive's fetch [from, to] can deliver.
ArchiveTop == IF to_block = None THEN archive_height ELSE Min(Unwrap(to_block), archive_height)

\* The head marker the hot subscription was anchored on.
Anchor == fetches[Len(fetches)].anchor[1]

\* The heads a hot update can be anchored on: the tracked head, or another
\* block between the anchor (which is finalized) and the tracked height.
HotBases ==
    {last_head} \cup
    {HashAndHeight(HashOf(g, f), g) : g \in (Anchor.height + 1)..last_head.height, f \in Forks}
    \cup {Anchor}

\* ----------------------------------------------------------------- Init
\* Transform payloads: two log filters, one log filter, bytes that do not
\* decode.
FilterA == [addresses |-> <<<<171>>, <<1, 35>>>>, event_signatures |-> <<<<222, 173>>>>]
FilterB == [addresses |-> <<>>, event_signatures |-> <<<<190, 239>>, <<0, 1>>>>]
PayloadTwo == [valid |-> TRUE, log_filters |-> <<FilterA, FilterB>>]
PayloadOne == [valid |-> TRUE, log_filters |-> <<FilterB>>]
PayloadBad == [valid |-> FALSE, log_filters |-> <<>>]
GoodTransforms == <<PayloadTwo, PayloadOne>>
OtherTransforms == {<<>>, <<PayloadOne>>, <<PayloadBad>>, <<PayloadTwo, PayloadBad>>}

StartHeights == {IntMin, -1} \cup (0..(MaxHeight + 1))

\* The small datasets, and the fixture of the end-to-end scenario.
Scenarios ==
    {[start |-> s, stop |-> t, ah |-> a, rh |-> r, tip |-> r + HotDepth, sparse |-> sp,
      transforms |-> GoodTransforms] :
        s \in StartHeights, t \in 0..(MaxHeight + 1), a \in 0..MaxHeight,
        r \in 0..MaxHeight, sp \in BOOLEAN}
    \cup {[start |-> -5, stop |-> 0, ah |-> 10, rh |-> 50, tip |-> 50 + HotDepth,
           sparse |-> FALSE, transforms |-> GoodTransforms]}
    \cup {[start |-> s, stop |-> t, ah |-> a, rh |-> r, tip |-> r + HotDepth,
           sparse |-> FALSE, transforms |-> tr] :
             s \in {-1, 0}, t \in {0, MaxHeight}, a \in 0..MaxHeight, r \in 0..MaxHeight,
             tr \in OtherTransforms}

\* The state before blocks() is called with the request of scenario sc.
Fresh(sc) ==
        /\ request = [start_block_num |-> sc.start, stop_block_num |-> sc.stop,
                      transforms |-> sc.transforms]
        /\ reply = None
        /\ logs = <<>>
        /\ streams = <<>>
        /\ archive_height = sc.ah
        /\ rpc_height = sc.rh
        /\ live_head = sc.tip
        /\ sparse = sc.sparse
        /\ pc = "call"
        /\ from_block = 0
        /\ to_block = None
        /\ state = None
        /\ last_head = HashAndHeight(ZeroHash, 0)
        /\ out = <<>>
        /\ err = ""
        /\ cur = 0
        /\ hi = 0
        /\ fetches = <<>>
        /\ reorged = FALSE
        /\ nUpd = 0
        /\ upd = None
        /\ batch = None
        /\ endCause = ""

Init == \E sc \in Scenarios : Fresh(sc)

\* Start resolution alone: every start height of the signed width, against
\* small heads and the heads of the documented examples.
ResolveHeads == (0..(MaxHeight + 1)) \cup {50, 100}
ResolveScenarios ==
    {[start |-> s, stop |-> 0, ah |-> 0, rh |-> r, tip |-> r, sparse |-> FALSE,
      transforms |-> <<>>] :
        s \in IntMin..IntMax, r \in ResolveHeads}

InitResolve == \E sc \in ResolveScenarios : Fresh(sc)

env == <<request, archive_height, rpc_height, live_head, sparse, reply>>

\* The height the start is resolved against: blocks() hands the live source
\* (self.rpc.as_ds()) to resolve_negative_start.
ResolveHeadArchive == archive_height
ResolveHead == rpc_height

\* -------------------------------------------------------------- actions
\* Firehose::blocks up to the creation of the (lazy) stream: the start is
\* resolved against the live source's finalized height.
Blocks ==
    /\ pc = "call"
    /\ \E headOk \in BOOLEAN :
       \E r \in resolve_negative_start(request.start_block_num,
                                       [ok |-> headOk, value |-> ResolveHead]) :
          LET filters == TranslateFilters(request.transforms, <<>>)
          IN  /\ pc' = CASE r.kind = "panic" -> "panicked"
                         [] r.kind = "err" \/ ~filters.ok -> "call_failed"
                         [] OTHER -> "A_enter"
              /\ err' = IF r.kind /= "ok" THEN r.why
                        ELSE IF ~filters.ok THEN "decode" ELSE ""
              /\ from_block' = r.value
              /\ logs' = IF r.kind = "ok" THEN filters.logs ELSE <<>>
    /\ to_block' = IF request.stop_block_num = 0 THEN None ELSE Some(request.stop_block_num)
    /\ UNCHANGED <<env, state, last_head, out, cur, hi, fetches, reorged, nUpd,
                   upd, batch, endCause, streams>>

\* Phase A, up to the archive fetch.
PhaseAEnter ==
    /\ pc = "A_enter"
    /\ IF from_block < archive_height
       THEN /\ fetches' = Append(fetches, [src |-> "archive",
                                           req |-> DataRequest(from_block, to_block, logs),
                                           anchor |-> None])
            /\ streams' = Append(streams, "open")
            /\ cur' = from_block
            /\ hi' = ArchiveTop
            /\ pc' = "A_loop"
       ELSE /\ pc' = "B_enter"
            /\ UNCHANGED <<fetches, cur, hi, streams>>
    /\ UNCHANGED <<env, from_block, to_block, state, last_head, out, err,
                   reorged, nUpd, upd, batch, endCause, logs>>

\* Phase A: the archive's stream delivers a batch.
PhaseANext ==
    /\ pc = "A_loop"
    /\ \E s \in Batches(cur, hi) : \E bad \in 0..Len(s) : \E q \in BadQtys :
          LET blocks == BlocksOf(s, 0, bad, q)
              st == ArchiveBlocks(blocks, [state |-> state, from_block |-> from_block,
                                           out |-> out, failed |-> FALSE])
          IN  /\ batch' = Some([blocks |-> blocks, before |-> Len(out)])
              /\ state' = st.state
              /\ from_block' = st.from_block
              /\ out' = st.out
              /\ pc' = IF st.failed THEN "failed" ELSE "A_loop"
              /\ err' = IF st.failed THEN "conversion" ELSE err
              /\ streams' = IF st.failed THEN EndStream(streams, "dropped") ELSE streams
              /\ cur' = s[Len(s)] + 1
    /\ UNCHANGED <<env, to_block, last_head, hi, fetches, reorged, nUpd, upd, endCause,
                   logs>>

\* Phase A: the archive's stream is exhausted; the stop check.
PhaseAEnd ==
    /\ pc = "A_loop"
    /\ sparse \/ cur > hi
    /\ IF to_block /= None
       THEN IF state = None
            THEN pc' = "panicked" /\ err' = "unwrap_none" /\ endCause' = endCause
            ELSE IF StopReached(state, to_block)
                 THEN pc' = "done" /\ err' = err /\ endCause' = "stop_A"
                 ELSE pc' = "B_enter" /\ UNCHANGED <<err, endCause>>
       ELSE pc' = "B_enter" /\ UNCHANGED <<err, endCause>>
    /\ streams' = EndStream(streams, "exhausted")
    /\ UNCHANGED <<env, from_block, to_block, state, last_head, out, cur, hi, fetches,
                   reorged, nUpd, upd, batch, logs>>

\* Phase B, up to the live source's finalized fetch.
PhaseBEnter ==
    /\ pc = "B_enter"
    /\ IF from_block < rpc_height
       THEN LET to == PhaseBTo(to_block, rpc_height)
            IN  /\ fetches' = Append(fetches, [src |-> "live",
                                               req |-> DataRequest(from_block, Some(to), logs),
                                               anchor |-> None])
                /\ streams' = Append(streams, "open")
                /\ cur' = from_block
                /\ hi' = to
                /\ pc' = "B_loop"
       ELSE /\ pc' = "C_enter"
            /\ UNCHANGED <<fetches, cur, hi, streams>>
    /\ UNCHANGED <<env, from_block, to_block, state, last_head, out, err,
                   reorged, nUpd, upd, batch, endCause, logs>>

\* Phase B: the live source's finalized stream delivers a batch.
PhaseBNext ==
    /\ pc = "B_loop"
    /\ \E s \in Batches(cur, hi) : \E bad \in 0..Len(s) : \E q \in BadQtys :
          LET blocks == BlocksOf(s, 0, bad, q)
              st == EmitBlocks(blocks, [out |-> out, failed |-> FALSE], "B")
          IN  /\ batch' = Some([blocks |-> blocks, before |-> Len(out)])
              /\ out' = st.out
              /\ pc' = IF st.failed THEN "failed" ELSE "B_loop"
              /\ err' = IF st.failed THEN "conversion" ELSE err
              /\ streams' = IF st.failed THEN EndStream(streams, "dropped") ELSE streams
              /\ cur' = s[Len(s)] + 1
    /\ UNCHANGED <<env, from_block, to_block, state, last_head, hi, fetches, reorged,
                   nUpd, upd, endCause, logs>>

\* Phase B: the stream is exhausted; the head marker is set from the live
\* source's hash at the ending height, then the stop check.
PhaseBEnd ==
    /\ pc = "B_loop"
    /\ sparse \/ cur > hi
    /\ state' = Some(HashAndHeight(HashOf(hi, 0), hi))
    /\ from_block' = NextFromLive(hi)
    /\ IF to_block /= None /\ StopReached(state', to_block)
       THEN pc' = "done" /\ endCause' = "stop_B"
       ELSE pc' = "C_enter" /\ endCause' = endCause
    /\ streams' = EndStream(streams, "exhausted")
    /\ UNCHANGED <<env, to_block, last_head, out, err, cur, hi, fetches, reorged, nUpd,
                   upd, batch, logs>>

\* Phase C, up to the hot subscription: it needs the head marker.
PhaseCEnter ==
    /\ pc = "C_enter"
    /\ IF state = None
       THEN /\ pc' = "failed"
            /\ err' = "state_none"
            /\ UNCHANGED <<last_head, fetches, streams>>
       ELSE /\ last_head' = Unwrap(state)
            /\ fetches' = Append(fetches, [src |-> "hot",
                                           req |-> DataRequest(from_block, to_block, logs),
                                           anchor |-> state])
            /\ streams' = Append(streams, "open")
            /\ pc' = "C_loop"
            /\ err' = err
    /\ UNCHANGED <<env, from_block, to_block, state, out, cur, hi, reorged,
                   nUpd, upd, batch, endCause, logs>>

\* Phase C: the hot stream delivers an update: up to MaxBatch blocks that
\* extend base_head, none above the chain tip.
PhaseCNext ==
    /\ pc = "C_loop"
    /\ nUpd < MaxUpdates
    /\ \E base \in HotBases : \E k \in 0..MaxBatch : \E bad \in 0..k : \E q \in BadQtys :
          /\ base.height + k <= live_head
          /\ LET f == IF base = last_head THEN ForkOf(base) ELSE 1 - ForkOf(last_head)
                 update == [base_head |-> base,
                            blocks |-> BlocksOf([i \in 1..k |-> base.height + i], f, bad, q)]
                 r == HotUpdate(update, last_head, out)
             IN  /\ out' = r.out
                 /\ last_head' = r.last_head
                 /\ pc' = IF r.failed THEN "failed" ELSE "C_loop"
                 /\ err' = IF r.failed THEN "conversion" ELSE err
                 /\ upd' = Some(base)
                 /\ batch' = Some([blocks |-> update.blocks, before |-> Len(out)])
                 /\ reorged' = (reorged \/ base /= last_head)
                 /\ streams' = IF r.failed THEN EndStream(streams, "dropped") ELSE streams
    /\ nUpd' = nUpd + 1
    /\ UNCHANGED <<env, from_block, to_block, state, cur, hi, fetches, endCause, logs>>

\* Phase C: the hot stream ends, which it does only past the chain tip.
PhaseCEnd ==
    /\ pc = "C_loop"
    /\ last_head.height >= live_head
    /\ pc' = "done"
    /\ endCause' = "hot_end"
    /\ streams' = EndStream(streams, "exhausted")
    /\ UNCHANGED <<env, from_block, to_block, state, last_head, out, err, cur, hi,
                   fetches, reorged, nUpd, upd, batch, logs>>

\* An upstream call fails: a height query, a fetch, a stream item, the hash
\* lookup that ends Phase B, the hot subscription.  The ? operator yields
\* the error and ends the stream.
UpstreamFails ==
    /\ \/ pc \in {"A_enter", "A_loop", "B_enter", "B_loop", "C_loop"}
       \/ pc = "C_enter" /\ state /= None
    /\ pc' = "failed"
    /\ err' = "upstream"
    /\ streams' = EndStream(streams, "dropped")
    /\ UNCHANGED <<env, from_block, to_block, state, last_head, out, cur, hi, fetches,
                   reorged, nUpd, upd, batch, endCause, logs>>

\* A consumer that stops pulling leaves the stream where it is: a behaviour
\* that stutters from then on.
Next ==
    \/ Blocks
    \/ PhaseAEnter
    \/ PhaseANext
    \/ PhaseAEnd
    \/ PhaseBEnter
    \/ PhaseBNext
    \/ PhaseBEnd
    \/ PhaseCEnter
    \/ PhaseCNext
    \/ PhaseCEnd
    \/ UpstreamFails

Spec == Init /\ [][Next]_vars

SpecResolve == InitResolve /\ [][Blocks]_vars

\* ---------------------------------------------------- single-block fetch
\* Raw data of the blocks a single-block fetch can return.
Address == <<10, 11>>
RawTransaction(index, to, gas) ==
    [transaction_index |-> index, to |-> to, gas |-> gas, cumulative_gas_used |-> GoodQty]
RawLog(index, log_index, address) ==
    [transaction_index |-> index, log_index |-> log_index, address |-> address,
     data |-> <<>>, topics |-> <<HashOf(log_index, 0)>>]
CallAction(type) ==
    [type |-> Some(type), from |-> Some(Address), to |-> Some(Address),
     value |-> Some(<<1>>), gas |-> Some(GoodQty), input |-> Some(<<12, 13>>)]
CreateAction ==
    [type |-> None, from |-> Some(Address), to |-> None,
     value |-> Some(<<1>>), gas |-> Some(GoodQty), input |-> None]
TraceResult ==
    [gas_used |-> Some(<<3>>), address |-> Some(Address), output |-> Some(<<14, 15>>)]
RawTrace(index, type, action, result, error, revert_reason) ==
    [transaction_index |-> index, type |-> type, action |-> action, result |-> result,
     error |-> error, revert_reason |-> revert_reason]

\* The transactions of a block: distinct indices, in any order.
TxVariants(index) ==
    {RawTransaction(index, None, GoodQty), RawTransaction(index, Some(Address), <<16, 16>>)}
TxSeqs ==
    {s \in UNION {[1..n -> UNION {TxVariants(i) : i \in 0..(MaxTx - 1)}] : n \in 0..MaxTx} :
        \A i, j \in 1..Len(s) : i /= j => s[i].transaction_index /= s[j].transaction_index}

\* The logs of a block with transactions txs: each log belongs to one of the
\* transactions, log_index counts the logs of the block; the first log may
\* have an address of odd length.
LogSeqs(txs) ==
    {[i \in 1..Len(owner) |->
         RawLog(owner[i], i - 1, IF i = odd THEN <<10>> ELSE Address)] :
       owner \in UNION {[1..n -> {txs[k].transaction_index : k \in 1..Len(txs)}] :
                           n \in 0..MaxLogs},
       odd \in 0..1}

\* The traces of a block, without their transaction: a Call with or without
\* result, error message and revert reason; a Create with result, with or
\* without error message; a Create without result; a Call and a Create
\* without action; the call kinds; a Suicide and a Reward.
TraceShapes ==
    {[type |-> "Call", action |-> Some(CallAction("Call")), result |-> r,
      error |-> e, revert_reason |-> v] :
        r \in {None, Some(TraceResult)},
        e \in {None, Some("out of gas")},
        v \in {None, Some("denied")}}
    \cup {[type |-> "Create", action |-> Some(CreateAction), result |-> Some(TraceResult),
           error |-> e, revert_reason |-> None] : e \in {None, Some("out of gas")}}
    \cup {[type |-> "Create", action |-> Some(CreateAction), result |-> None,
           error |-> Some("out of gas"), revert_reason |-> None]}
    \cup {[type |-> t, action |-> None, result |-> None, error |-> None,
           revert_reason |-> None] : t \in {"Call", "Create", "Suicide", "Reward"}}
    \cup {[type |-> "Call", action |-> Some(CallAction(c)), result |-> Some(TraceResult),
           error |-> None, revert_reason |-> None] :
            c \in {"Callcode", "Delegatecall", "Staticcall"}}

\* The traces of a block with transactions 0 and 1: all of transaction 0,
\* all of transaction 1, or in turn.
TraceSeqs ==
    {[i \in 1..Len(shapes) |->
         RawTrace(CASE owner = "first" -> 0 [] owner = "second" -> 1 [] OTHER -> (i - 1) % 2,
                  shapes[i].type, shapes[i].action, shapes[i].result,
                  shapes[i].error, shapes[i].revert_reason)] :
       shapes \in UNION {[1..n -> TraceShapes] : n \in 0..MaxTraces},
       owner \in {"first", "second", "turn"}}

\* A raw block with the header of RawBlock.
FullBlock(h, gas, txs, lgs, trs) ==
    [RawBlock(h, 0, gas) EXCEPT !.transactions = txs, !.logs = lgs, !.traces = trs]

\* The height the single-block requests ask for.
AskedHeight == 1

\* The blocks the archive can hold at that height: transactions and logs,
\* or two transactions and traces.
ArchiveBlocksAt ==
    UNION {{FullBlock(AskedHeight, GoodQty, txs, lgs, <<>>) : lgs \in LogSeqs(txs)} :
              txs \in TxSeqs}
    \cup {FullBlock(AskedHeight, GoodQty,
                    <<RawTransaction(1, None, GoodQty), RawTransaction(0, None, GoodQty)>>,
                    <<>>, trs) : trs \in TraceSeqs}

\* The references of a single-block request.
References ==
    {None,
     Some([kind |-> "BlockNumber", num |-> AskedHeight, cursor |-> <<>>]),
     Some([kind |-> "BlockHashAndNumber", num |-> AskedHeight, cursor |-> <<>>]),
     Some([kind |-> "Cursor", num |-> 0, cursor |-> to_string(AskedHeight)]),
     Some([kind |-> "Cursor", num |-> 0, cursor |-> <<16>>]),
     Some([kind |-> "Cursor", num |-> 0, cursor |-> <<>>])}

\* What the archive answers: the fetch fails, or a sequence of items, each
\* an error or a batch.
Replies ==
    {[fetch_ok |-> FALSE, items |-> <<>>],
     [fetch_ok |-> TRUE, items |-> <<>>],
     [fetch_ok |-> TRUE, items |-> <<[ok |-> FALSE, blocks |-> <<>>]>>],
     [fetch_ok |-> TRUE, items |-> <<[ok |-> TRUE, blocks |-> <<>>]>>],
     [fetch_ok |-> TRUE, items |-> <<[ok |-> TRUE, blocks |-> <<>>],
                                    [ok |-> TRUE, blocks |-> <<RawBlock(AskedHeight, 0, GoodQty)>>]>>]}
    \cup {[fetch_ok |-> TRUE, items |-> <<[ok |-> TRUE, blocks |-> <<RawBlock(AskedHeight, 0, q)>>]>>] :
            q \in {GoodQty} \cup BadQtys}

BlockScenarios ==
    {[reference |-> ref, reply |-> rp] : ref \in References, rp \in Replies}
    \cup {[reference |-> Some([kind |-> "BlockNumber", num |-> AskedHeight, cursor |-> <<>>]),
           reply |-> [fetch_ok |-> TRUE, items |-> <<[ok |-> TRUE, blocks |-> <<b>>]>>]] :
            b \in ArchiveBlocksAt}

\* The state before block() is called with the request of scenario sc.
InitBlock ==
    \E sc \in BlockScenarios :
        /\ request = [reference |-> sc.reference]
        /\ reply = sc.reply
        /\ archive_height = AskedHeight
        /\ rpc_height = AskedHeight
        /\ live_head = AskedHeight
        /\ sparse = FALSE
        /\ pc = "block_call"
        /\ from_block = 0
        /\ to_block = None
        /\ state = None
        /\ last_head = HashAndHeight(ZeroHash, 0)
        /\ out = <<>>
        /\ err = ""
        /\ cur = 0
        /\ hi = 0
        /\ fetches = <<>>
        /\ reorged = FALSE
        /\ nUpd = 0
        /\ upd = None
        /\ batch = None
        /\ endCause = ""
        /\ logs = <<>>
        /\ streams = <<>>

\* The height a reference names: kind is "ok", or "panic" when
\* cursor.parse() is unwrapped on text that is no number.
BlockNum(reference) ==
    IF reference.kind = "Cursor"
    THEN LET parsed == ParseU64(reference.cursor)
         IN  [kind |-> IF parsed.ok THEN "ok" ELSE "panic", value |-> parsed.value]
    ELSE [kind |-> "ok", value |-> reference.num]

\* stream.next().await.unwrap()?: the first item of the archive's sequence;
\* kind is "panic" when the sequence has none, "err" when the item is an
\* error.
FirstBatch(items) ==
    IF items = <<>> THEN [kind |-> "panic", why |-> "unwrap_none", blocks |-> <<>>]
    ELSE IF ~Head(items).ok THEN [kind |-> "err", why |-> "upstream", blocks |-> <<>>]
    ELSE [kind |-> "ok", why |-> "", blocks |-> Head(items).blocks]

\* blocks.into_iter().nth(0).unwrap(): kind is "panic" for an empty batch.
FirstBlock(blocks) ==
    IF blocks = <<>> THEN [kind |-> "panic", why |-> "unwrap_none", block |-> <<>>]
    ELSE [kind |-> "ok", why |-> "", block |-> Head(blocks)]

\* The outcome of Firehose::block for a request and the archive's answer:
\* [kind, why, fetch, response], kind "ok", "err" (the call returns the
\* failure) or "panic"; fetch holds the DataRequest when one was issued.
BlockOutcome(req, answer) ==
    LET fail(kind, why, fetch) ==
            [kind |-> kind, why |-> why, fetch |-> fetch, response |-> <<>>]
    IN  IF req.reference = None THEN fail("panic", "unwrap_none", <<>>)
        ELSE LET block_num == BlockNum(Unwrap(req.reference))
                 fetch == <<DataRequest(block_num.value, Some(block_num.value), <<>>)>>
             IN  IF block_num.kind /= "ok" THEN fail("panic", "parse", <<>>)
                 ELSE IF ~answer.fetch_ok THEN fail("err", "upstream", fetch)
                 ELSE LET blocks == FirstBatch(answer.items)
                      IN  IF blocks.kind /= "ok" THEN fail(blocks.kind, blocks.why, fetch)
                          ELSE LET block == FirstBlock(blocks.blocks)
                               IN  IF block.kind /= "ok"
                                   THEN fail(block.kind, block.why, fetch)
                                   ELSE LET graph_block == TryFromBlock(block.block)
                                        IN  IF graph_block.kind = "ok"
                                            THEN [kind |-> "ok", why |-> "", fetch |-> fetch,
                                                  response |-> <<[block |-> graph_block.block]>>]
                                            ELSE fail(graph_block.kind,
                                                      IF graph_block.kind = "err"
                                                      THEN "conversion"
                                                      ELSE "conversion_unwrap",
                                                      fetch)

\* Firehose::block.
Block ==
    /\ pc = "block_call"
    /\ LET r == BlockOutcome(request, reply)
       IN  /\ pc' = CASE r.kind = "ok" -> "returned"
                      [] r.kind = "err" -> "call_failed"
                      [] OTHER -> "panicked"
           /\ err' = r.why
           /\ out' = r.response
           /\ fetches' = [i \in 1..Len(r.fetch) |->
                             [src |-> "archive", req |-> r.fetch[i], anchor |-> None]]
           /\ batch' = IF r.kind \in {"ok", "err", "panic"} /\ reply.fetch_ok
                          /\ reply.items /= <<>> /\ Head(reply.items).ok /\ r.fetch /= <<>>
                       THEN Some([blocks |-> Head(reply.items).blocks, before |-> 0])
                       ELSE None
    /\ UNCHANGED <<env, from_block, to_block, state, last_head, cur, hi, reorged, nUpd,
                   upd, endCause, logs, streams>>

SpecBlock == InitBlock /\ [][Block]_vars

\* ------------------------------------------------------------- claims
\* The bytes of a four-digit hash text.
HashBytes(t) == <<t[1] * 16 + t[2], t[3] * 16 + t[4]>>

\* The head a hot update is compared with: the head marker handed over from
\* Phases A/B before the first update, the previous update's tip after it.
TrackedHead ==
    IF nUpd = 0 THEN Unwrap(state)
    ELSE IF Unwrap(batch).blocks = <<>> THEN Unwrap(upd)
    ELSE LET b == Unwrap(batch).blocks[Len(Unwrap(batch).blocks)].header
         IN  HashAndHeight(b.hash, b.number)

\* A hot update has just been received and handled.
HotStep == pc = "C_loop" /\ nUpd' = nUpd + 1

\* C1: in Phase C, an update whose base_head differs from the tracked head
\* (the previous update's tip, or the head marker handed over for the first
\* update) yields exactly one Undo, before every New of that update; the
\* Undo's block has header number = the previously tracked height and
\* parent_hash = the bytes of the update's base_head.hash.
C1_UndoBeforeNew ==
    [][(HotStep /\ Unwrap(upd') /= TrackedHead) =>
          /\ Len(out') > Len(out)
          /\ SubSeq(out', 1, Len(out)) = out
          /\ out'[Len(out) + 1].step = "Undo"
          /\ out'[Len(out) + 1].block.header.number = TrackedHead.height
          /\ out'[Len(out) + 1].block.header.parent_hash = HashBytes(Unwrap(upd').hash)
          /\ \A j \in (Len(out) + 2)..Len(out') : out'[j].step = "New"]_vars

\* C1 witness: the second update forked off the first update's tip and
\* carried a block: its Undo is followed by a New.
C1_Witness ==
    /\ nUpd = 2
    /\ Len(out) >= 2
    /\ out[Len(out) - 1].step = "Undo"
    /\ out[Len(out)].step = "New"
    /\ Unwrap(batch).before = Len(out) - 2

\* The sources honoured the fetch contract: no call failed, no block was
\* unconvertible, no height was left out.
NoFault == err \notin {"upstream", "conversion"}

\* The stream has ended, normally or not.
Ended == pc \in {"done", "failed", "panicked"}

\* out holds one New per height, first, first + 1, ..., in this order.
NewRun(first) ==
    \A i \in 1..Len(out) : out[i].step = "New" /\ out[i].block.number = first + i - 1

\* C2: for a start s >= 0 with s <= live head (s = live head included) and
\* stop = 0, with sources that honour the fetch contract and no reorg, the
\* stream holds exactly one New per height of [s, live_head], in increasing
\* order, and no Undo.
C2_OneNewPerHeight ==
    (/\ pc /= "call"
     /\ request.start_block_num >= 0
     /\ request.start_block_num <= live_head
     /\ request.stop_block_num = 0
     /\ archive_height <= live_head
     /\ ~sparse /\ ~reorged /\ NoFault) =>
        /\ NewRun(request.start_block_num)
        /\ Len(out) <= live_head - request.start_block_num + 1
        /\ Ended => Len(out) = live_head - request.start_block_num + 1

\* C3: Phase C is never entered without a head marker: the stream never
\* fails with "state isn't expected to be None".
C3_HeadMarkerPresent == err /= "state_none"

\* The fixture of the end-to-end scenario: {start = -5, stop = 0}, live
\* head 50, archive finalized height 10, sources that honour the contract.
Fixture ==
    /\ request.start_block_num = -5 /\ request.stop_block_num = 0
    /\ rpc_height = 50
    /\ archive_height = 10
    /\ pc /= "call"
    /\ ~sparse /\ ~reorged /\ NoFault

\* C4 as stated: in the fixture Phase A emits heights 5 to 9 from the
\* archive, and Phases B/C go on from 10 with no height skipped or repeated.
C4_ArchiveEmitsFiveToNine ==
    Fixture =>
        /\ NewRun(5)
        /\ \A i \in 1..Len(out) : i <= 5 => out[i].phase = "A"
        /\ pc \notin {"call", "A_enter", "A_loop"} => Len(out) >= 5

\* C4 amended: in the fixture the start resolves to 45 = 50 - 5, which is
\* not below the archive's height 10: no archive fetch is issued and
\* heights 5 to 9 are not emitted.  Phase B emits 45 to 50 from the live
\* finalized source and Phase C goes on from 51, with no height skipped or
\* repeated absent a reorg.
C4_LiveEmitsFromFortyFive ==
    Fixture =>
        /\ from_block >= 45
        /\ \A i \in 1..Len(fetches) : fetches[i].src /= "archive"
        /\ NewRun(45)
        /\ \A i \in 1..Len(out) :
              out[i].phase = IF out[i].block.number <= 50 THEN "B" ELSE "C"
        /\ pc \in {"C_enter", "C_loop", "done"} => Len(out) >= 6
        /\ pc = "done" => Len(out) = live_head - 45 + 1

\* C4 witness: the fixture's stream has emitted 45..50 in Phase B and 51 in
\* Phase C.
C4_Witness ==
    /\ Fixture
    /\ Len(out) >= 7
    /\ out[1].block.number = 45 /\ out[1].phase = "B"
    /\ out[7].block.number = 51 /\ out[7].phase = "C"

\* C5: each New has a height strictly above the previous New's, unless an
\* Undo was emitted between them.
C5_NewHeightsIncrease ==
    \A i \in 1..(Len(out) - 1) :
        (out[i].step = "New" /\ out[i + 1].step = "New") =>
            out[i + 1].block.number > out[i].block.number

\* C5 witness: a stream with a New of each phase, across both hand-overs.
C5_Witness ==
    /\ Len(out) >= 3
    /\ \E i, j, k \in 1..Len(out) :
          /\ i < j /\ j < k
          /\ out[i].phase = "A" /\ out[j].phase = "B" /\ out[k].phase = "C"
          /\ \A n \in i..k : out[n].step = "New"

\* a is a prefix of b.
IsPrefix(a, b) == Len(a) <= Len(b) /\ SubSeq(b, 1, Len(a)) = a

\* No hot subscription has been issued.
NoHotFetch == \A i \in 1..Len(fetches) : fetches[i].src /= "hot"

\* C6: with a stop height set, when Phase A's stream is exhausted and the
\* last block it accepted has the stop height, or when Phase B's stream is
\* exhausted and its ending height is the stop height, the stream ends
\* there: nothing more is fetched or subscribed, nothing more is emitted,
\* and no response is above the stop height.
C6_StopEndsStream ==
    /\ [][/\ (/\ pc = "A_loop" /\ pc' \notin {"A_loop", "failed", "panicked"}
              /\ to_block /= None /\ state /= None
              /\ Unwrap(state).height = Unwrap(to_block)) =>
                 (pc' = "done" /\ fetches' = fetches /\ out' = out)
          /\ (/\ pc = "B_loop" /\ pc' \notin {"B_loop", "failed"}
              /\ to_block /= None /\ hi = Unwrap(to_block)) =>
                 (pc' = "done" /\ fetches' = fetches /\ out' = out)
          /\ pc = "done" => UNCHANGED vars]_vars
    /\ [](pc = "done" /\ NoHotFetch =>
             /\ to_block /= None
             /\ Unwrap(state).height = Unwrap(to_block)
             /\ \A i \in 1..Len(out) : out[i].block.number <= Unwrap(to_block))

\* C6 witness: Phase A accepted the stop height as its last block and the
\* stream ended with the archive fetch as its only fetch.
C6_Witness ==
    /\ pc = "done"
    /\ Len(fetches) = 1 /\ fetches[1].src = "archive"
    /\ Len(out) >= 2
    /\ out[Len(out)].block.number = Unwrap(to_block)

\* The heights of the New responses among out[from..].
NewHeightsFrom(responses, from) ==
    LET news == SelectSeq(SubSeq(responses, from, Len(responses)),
                          LAMBDA r : r.step = "New")
    IN  [i \in 1..Len(news) |-> news[i].block.number]

\* C7: once Phase C has begun the stop height is never checked again: every
\* block a hot update delivers is emitted as a New, above the stop height
\* too, and the stream leaves Phase C only when the hot stream ends or with
\* an error.
C7_HotIgnoresStop ==
    [][/\ (HotStep /\ pc' = "C_loop") =>
             NewHeightsFrom(out', Len(out) + 1) =
                [i \in 1..Len(Unwrap(batch').blocks) |->
                    Unwrap(batch').blocks[i].header.number]
       /\ (pc = "C_loop" /\ pc' /= "C_loop") =>
             \/ pc' = "failed" /\ err' \in {"upstream", "conversion"}
             \/ pc' = "done" /\ last_head.height >= live_head /\ out' = out]_vars

\* C7 witness: Phase C has emitted a New above the stop height.
C7_Witness ==
    /\ pc = "C_loop"
    /\ to_block /= None
    /\ \E i \in 1..Len(out) :
          /\ out[i].phase = "C" /\ out[i].step = "New"
          /\ out[i].block.number > Unwrap(to_block)

\* The index of the first block of the last batch that does not convert, or
\* 0 when all convert.
FirstUnconvertible ==
    LET blocks == Unwrap(batch).blocks
        bad == {i \in 1..Len(blocks) : ~TryFromBlock(blocks[i]).ok}
    IN  IF bad = {} THEN 0 ELSE CHOOSE i \in bad : \A j \in bad : i <= j

Max0(n) == IF n > 0 THEN n ELSE 0

\* C9 as stated: every negative start -k resolves to max(0, head - k), head
\* being the live source's finalized height, when the height query
\* succeeds; a non-negative start is used unchanged.
C9_EveryNegativeStartResolves ==
    (pc /= "call" /\ err /= "upstream") =>
        /\ pc = "A_enter"
        /\ from_block = IF request.start_block_num < 0
                        THEN Max0(rpc_height + request.start_block_num)
                        ELSE request.start_block_num

\* C9 amended: a negative start -k other than the minimum of the signed
\* width resolves to max(0, head - k) when the height query succeeds; a
\* non-negative start is used unchanged; for the minimum itself abs()
\* overflows and no start is resolved: blocks() fails or panics.
C9_NegativeStartResolves ==
    pc /= "call" =>
        /\ (request.start_block_num > IntMin /\ err /= "upstream") =>
              /\ pc = "A_enter"
              /\ from_block = IF request.start_block_num < 0
                              THEN Max0(rpc_height + request.start_block_num)
                              ELSE request.start_block_num
        /\ request.start_block_num = IntMin => pc \in {"call_failed", "panicked"}
        /\ err = "upstream" => request.start_block_num < 0

\* C9 witness: start = -10 against head 100 resolved to 90.
C9_Witness ==
    /\ pc = "A_enter"
    /\ request.start_block_num = -10
    /\ rpc_height = 100
    /\ from_block = 90

\* d is the decimal string of n: digits 0..9, no leading zero, value n.
IsDecimalOf(d, n) ==
    /\ Len(d) >= 1
    /\ \A i \in 1..Len(d) : d[i] \in 0..9
    /\ Len(d) > 1 => d[1] /= 0
    /\ DecimalValue(d) = n

\* C10: every response's cursor is the decimal string of the height it
\* refers to: the number of the converted block (the raw block's height)
\* for a New, the previously tracked height for an Undo.
C10_CursorIsHeight ==
    /\ [](\A i \in 1..Len(out) :
             /\ IsDecimalOf(out[i].cursor, out[i].ref)
             /\ out[i].step = "New" => out[i].block.number = out[i].ref)
    /\ [][(HotStep /\ Unwrap(upd') /= TrackedHead) =>
             /\ Len(out') > Len(out)
             /\ out'[Len(out) + 1].step = "Undo"
             /\ IsDecimalOf(out'[Len(out) + 1].cursor, TrackedHead.height)]_vars

\* C10 witness: in the fixture height 51 was emitted as a New and then
\* undone, both with the two-digit cursor "51".
C10_Witness ==
    \E i, j \in 1..Len(out) :
        /\ i < j
        /\ out[i].step = "New" /\ out[i].cursor = <<5, 1>>
        /\ out[j].step = "Undo" /\ out[j].cursor = <<5, 1>>

\* The place of a source in the order archive, live finalized, hot.
PhaseRank(src) == CASE src = "archive" -> 1 [] src = "live" -> 2 [] OTHER -> 3

\* The fetches and subscriptions whose stream is still active.
ActiveStreams == {i \in 1..Len(streams) : streams[i] = "open"}

\* C11: the phases run in the order archive, live finalized, hot: a fetch or
\* subscription is issued only when the stream of every earlier one has been
\* exhausted, each source is asked at most once and in that order, and at no
\* time are two of a request's streams active together.
C11_PhasesInOrder ==
    /\ [](/\ Len(streams) = Len(fetches)
          /\ Cardinality(ActiveStreams) <= 1
          /\ \A i, j \in 1..Len(fetches) :
                i < j => PhaseRank(fetches[i].src) < PhaseRank(fetches[j].src))
    /\ [][Len(fetches') > Len(fetches) =>
             /\ Len(fetches') = Len(fetches) + 1
             /\ \A i \in 1..Len(streams) : streams[i] = "exhausted"
             /\ streams'[Len(fetches')] = "open"]_vars

\* C11 witness: the archive fetch and the live finalized fetch were
\* exhausted in turn and the hot subscription is the one active stream.
C11_Witness ==
    /\ Len(fetches) = 3
    /\ fetches[1].src = "archive" /\ fetches[2].src = "live" /\ fetches[3].src = "hot"
    /\ streams = <<"exhausted", "exhausted", "open">>
    /\ nUpd > 0

\* The raw block a single-block fetch handed to the conversion.
FetchedBlock == Unwrap(batch).blocks[1]

\* The conversion has been applied to a fetched block.
Converted == pc /= "block_call" /\ batch /= None /\ Unwrap(batch).blocks /= <<>>

\* A Create or Call trace that lacks a field its kind requires: the action,
\* or the result of a Create.
MissingRequiredField(trace) ==
    /\ trace.type \in {"Create", "Call"}
    /\ trace.action = None \/ (trace.type = "Create" /\ trace.result = None)

\* C12: the conversion of a raw block that holds a Create or Call trace
\* whose required field is absent ends in a conversion failure value, which
\* the caller reports as its error: the trace is not skipped and nothing
\* panics.
C12_MissingFieldIsFailureValue ==
    (Converted /\ \E i \in 1..Len(FetchedBlock.traces) :
                     MissingRequiredField(FetchedBlock.traces[i])) =>
        pc = "call_failed" /\ err = "conversion"

\* The request names a height: a reference is present and a cursor parses.
NamesHeight ==
    /\ request.reference /= None
    /\ BlockNum(Unwrap(request.reference)).kind = "ok"

\* The archive's fetch succeeds and holds no block: an empty sequence, or
\* batches that are all empty.
NoBlockReturned ==
    /\ reply.fetch_ok
    /\ \A i \in 1..Len(reply.items) : reply.items[i].ok /\ reply.items[i].blocks = <<>>

\* C13: Firehose::block issues one archive fetch for [height, height] and,
\* when the archive returns no block for it, returns a NotFound failure
\* value to the caller; it does not panic.
C13_NoBlockIsNotFound ==
    (pc /= "block_call" /\ NamesHeight) =>
        /\ Len(fetches) = 1
        /\ fetches[1].src = "archive"
        /\ fetches[1].req = DataRequest(AskedHeight, Some(AskedHeight), <<>>)
        /\ NoBlockReturned => (pc = "call_failed" /\ err = "not_found")

\* The transaction traces of the block Firehose::block returned.
ReturnedTraces == out[1].block.transaction_traces

\* The raw logs of transaction index, in their order in the raw block.
RawLogsOf(index) == SelectSeq(FetchedBlock.logs, LAMBDA l : l.transaction_index = index)

\* C14: for every transaction index that occurs in the raw block's logs, the
\* receipt of the converted block for that index holds exactly the raw logs
\* of that index, in their original relative order: none dropped,
\* duplicated or reordered.
C14_LogsGroupedInOrder ==
    pc = "returned" =>
        \A index \in {FetchedBlock.logs[k].transaction_index :
                         k \in 1..Len(FetchedBlock.logs)} :
            /\ \E n \in 1..Len(ReturnedTraces) : ReturnedTraces[n].index = index
            /\ \A n \in 1..Len(ReturnedTraces) :
                  ReturnedTraces[n].index = index =>
                      /\ ReturnedTraces[n].receipt /= None
                      /\ LET got == Unwrap(ReturnedTraces[n].receipt).logs
                             want == RawLogsOf(index)
                         IN  /\ Len(got) = Len(want)
                             /\ \A k \in 1..Len(got) :
                                   /\ got[k].block_index = want[k].log_index
                                   /\ got[k].index = index
                                   /\ got[k].address = PrefixHexDecode(want[k].address).bytes
                                   /\ got[k].topics = <<HashBytes(want[k].topics[1])>>

\* C14 witness: a block whose logs 0 and 2 belong to one transaction and
\* log 1 to another was converted.
C14_Witness ==
    /\ pc = "returned"
    /\ Len(FetchedBlock.logs) = 3
    /\ FetchedBlock.logs[1].transaction_index = FetchedBlock.logs[3].transaction_index
    /\ FetchedBlock.logs[1].transaction_index /= FetchedBlock.logs[2].transaction_index
    /\ \E n \in 1..Len(ReturnedTraces) : Len(Unwrap(ReturnedTraces[n].receipt).logs) = 2

\* The raw block has a log or a trace of transaction index.
HasLogOrTrace(index) ==
    \/ \E k \in 1..Len(FetchedBlock.logs) : FetchedBlock.logs[k].transaction_index = index
    \/ \E k \in 1..Len(FetchedBlock.traces) : FetchedBlock.traces[k].transaction_index = index

\* The quantities of the raw block's header and transactions parse.
QuantitiesParse ==
    /\ qty2int(FetchedBlock.header.gas_limit).ok
    /\ \A n \in 1..Len(FetchedBlock.transactions) :
          /\ qty2int(FetchedBlock.transactions[n].gas).ok
          /\ qty2int(FetchedBlock.transactions[n].cumulative_gas_used).ok

\* C15: every transaction of the raw block yields exactly one transaction
\* trace of the converted block, in input order, with exactly one receipt; a
\* transaction with no logs and no traces yields empty log and call lists,
\* and a block without logs and traces whose quantities parse converts
\* without error.
C15_OneTracePerTransaction ==
    /\ pc = "returned" =>
          /\ Len(ReturnedTraces) = Len(FetchedBlock.transactions)
          /\ \A n \in 1..Len(ReturnedTraces) :
                /\ ReturnedTraces[n].index = FetchedBlock.transactions[n].transaction_index
                /\ Len(ReturnedTraces[n].receipt) = 1
                /\ ~HasLogOrTrace(ReturnedTraces[n].index) =>
                      /\ Unwrap(ReturnedTraces[n].receipt).logs = <<>>
                      /\ ReturnedTraces[n].calls = <<>>
    /\ (Converted /\ FetchedBlock.logs = <<>> /\ FetchedBlock.traces = <<>>
        /\ QuantitiesParse) => pc = "returned"

\* C15 witness: a converted block of two transactions, the first with a log
\* and the second with no log and no trace.
C15_Witness ==
    /\ pc = "returned"
    /\ Len(ReturnedTraces) = 2
    /\ Len(Unwrap(ReturnedTraces[1].receipt).logs) >= 1
    /\ ~HasLogOrTrace(ReturnedTraces[2].index)
    /\ Unwrap(ReturnedTraces[2].receipt).logs = <<>>

\* The raw Create and Call traces of transaction index, in their order in
\* the raw block.
RawCallsOf(index) ==
    SelectSeq(FetchedBlock.traces,
              LAMBDA t : t.transaction_index = index /\ t.type \in {"Create", "Call"})

\* The call_type a raw Create or Call trace must get.
ExpectedCallType(trace) ==
    IF trace.type = "Create" THEN 5
    ELSE CASE Unwrap(Unwrap(trace.action).type) = "Call" -> 1
           [] Unwrap(Unwrap(trace.action).type) = "Callcode" -> 2
           [] Unwrap(Unwrap(trace.action).type) = "Delegatecall" -> 3
           [] Unwrap(Unwrap(trace.action).type) = "Staticcall" -> 4

\* C16: in the converted block the call entries of a transaction are its
\* Create and Call traces, one entry each and in input order; its Suicide
\* and Reward traces produce no entry, whatever other traces it has.
C16_OnlyCreateAndCallBecomeCalls ==
    pc = "returned" =>
        \A n \in 1..Len(ReturnedTraces) :
            LET got == ReturnedTraces[n].calls
                want == RawCallsOf(ReturnedTraces[n].index)
            IN  /\ Len(got) = Len(want)
                /\ \A k \in 1..Len(got) :
                      /\ got[k].call_type = ExpectedCallType(want[k])
                      /\ got[k].failure_reason =
                            IF want[k].error /= None THEN Unwrap(want[k].error)
                            ELSE IF want[k].revert_reason /= None
                                 THEN Unwrap(want[k].revert_reason)
                                 ELSE <<>>

\* C16 witness: a transaction with a Suicide trace and a Create trace (or a
\* Reward trace and a Call trace) was converted to one call entry.
C16_Witness ==
    /\ pc = "returned"
    /\ Len(FetchedBlock.traces) = 2
    /\ FetchedBlock.traces[1].transaction_index = FetchedBlock.traces[2].transaction_index
    /\ FetchedBlock.traces[1].type \in {"Suicide", "Reward"}
    /\ FetchedBlock.traces[2].type \in {"Create", "Call"}
    /\ \E n \in 1..Len(ReturnedTraces) : Len(ReturnedTraces[n].calls) = 1

\* C17: a Call trace with no result becomes a call entry with
\* gas_consumed = 0 and empty return_data, and is no error; for every call
\* entry status_failed says that the trace has an error message or a revert
\* reason, status_reverted that it has a revert reason, and failure_reason
\* is the error message, else the revert reason, else empty.
C17_CallWithoutResult ==
    /\ pc = "returned" =>
          \A n \in 1..Len(ReturnedTraces) :
              LET got == ReturnedTraces[n].calls
                  want == RawCallsOf(ReturnedTraces[n].index)
              IN  /\ Len(got) = Len(want)
                  /\ \A k \in 1..Len(got) :
                        /\ (want[k].type = "Call" /\ want[k].result = None) =>
                              (got[k].gas_consumed = 0 /\ got[k].return_data = <<>>)
                        /\ got[k].status_failed <=>
                              (want[k].error /= None \/ want[k].revert_reason /= None)
                        /\ got[k].status_reverted <=> (want[k].revert_reason /= None)
                        /\ want[k].error /= None =>
                              got[k].failure_reason = Unwrap(want[k].error)
                        /\ (want[k].error = None /\ want[k].revert_reason /= None) =>
                              got[k].failure_reason = Unwrap(want[k].revert_reason)
                        /\ (want[k].error = None /\ want[k].revert_reason = None) =>
                              got[k].failure_reason = <<>>
    /\ (/\ Converted
        /\ \A k \in 1..Len(FetchedBlock.traces) :
              /\ FetchedBlock.traces[k].type = "Call"
              /\ FetchedBlock.traces[k].action /= None
        /\ FetchedBlock.logs = <<>>
        /\ QuantitiesParse) => pc = "returned"

\* C17 witness: a Call trace with no result and a revert reason, and one
\* with no result and an error message, were converted to two call entries.
C17_Witness ==
    /\ pc = "returned"
    /\ Len(FetchedBlock.traces) = 2
    /\ \A k \in 1..2 : FetchedBlock.traces[k].type = "Call"
                       /\ FetchedBlock.traces[k].result = None
                       /\ FetchedBlock.traces[k].transaction_index = 0
    /\ FetchedBlock.traces[1].revert_reason /= None /\ FetchedBlock.traces[1].error = None
    /\ FetchedBlock.traces[2].error /= None
    /\ \E n \in 1..Len(ReturnedTraces) :
          /\ Len(ReturnedTraces[n].calls) = 2
          /\ ReturnedTraces[n].calls[1].status_reverted
          /\ ReturnedTraces[n].calls[1].gas_consumed = 0

\* The height Phase B ends at: min(stop, live finalized height), or the live
\* finalized height when no stop is set.
PhaseBEndingHeight ==
    IF request.stop_block_num = 0 THEN rpc_height
    ELSE IF request.stop_block_num < rpc_height THEN request.stop_block_num
    ELSE rpc_height

\* C18: when Phase B runs, then once its fetch is exhausted the head marker
\* is (the live source's block hash at the phase's ending height, that
\* height) and from_block is that height + 1, whatever blocks the fetch
\* returned, none included; the ending height is min(stop, live finalized
\* height), or the live finalized height when no stop is set.
C18_PhaseBSetsHeadMarker ==
    [][(pc = "B_loop" /\ pc' \in {"C_enter", "done"}) =>
          /\ fetches[Len(fetches)].src = "live"
          /\ fetches[Len(fetches)].req.to = Some(PhaseBEndingHeight)
          /\ state' = Some(HashAndHeight(HashOf(PhaseBEndingHeight, 0), PhaseBEndingHeight))
          /\ from_block' = PhaseBEndingHeight + 1
          /\ out' = out]_vars

\* C18 witness: Phase B ran with a stop above the live finalized height, its
\* fetch returned no block, and the head marker and from_block were set all
\* the same.
C18_Witness ==
    /\ pc = "C_enter"
    /\ fetches /= <<>> /\ fetches[Len(fetches)].src = "live"
    /\ \A i \in 1..Len(out) : out[i].phase /= "B"
    /\ to_block /= None /\ Unwrap(to_block) > rpc_height
    /\ state = Some(HashAndHeight(HashOf(rpc_height, 0), rpc_height))
    /\ from_block = rpc_height + 1
    /\ from_block > fetches[Len(fetches)].req.from + 1

\* The identity of the last block of a batch of raw blocks.
LastIdentity(blocks) ==
    HashAndHeight(blocks[Len(blocks)].header.hash, blocks[Len(blocks)].header.number)

\* C19: after each hot update processed in Phase C the tracked head is the
\* identity (hash, height) of the update's last new block, or the update's
\* base_head when it carried no blocks, whether or not the update triggered
\* an Undo; nothing else changes the tracked head.
C19_TrackedHeadIsUpdateTip ==
    [][/\ (HotStep /\ pc' = "C_loop") =>
             last_head' = IF Unwrap(batch').blocks = <<>> THEN Unwrap(upd')
                          ELSE LastIdentity(Unwrap(batch').blocks)
       /\ (pc /= "C_enter" /\ last_head' /= last_head) => (HotStep /\ pc' = "C_loop")]_vars

\* C19 witness: an update that triggered an Undo and carried blocks was
\* processed, and the tracked head is its last block, on the other fork.
C19_Witness ==
    /\ pc = "C_loop"
    /\ nUpd >= 1
    /\ Unwrap(batch).blocks /= <<>>
    /\ Len(out) > Unwrap(batch).before
    /\ out[Unwrap(batch).before + 1].step = "Undo"
    /\ last_head = LastIdentity(Unwrap(batch).blocks)
    /\ last_head /= Unwrap(upd)
    /\ ForkOf(last_head) = 1

\* The log filters of GoodTransforms, written out: "0xab" and "0x0123" with
\* topic "0xdead", then twice the topics "0xbeef" and "0x0001".
GoodLogRequests ==
    <<[address |-> <<<<10, 11>>, <<0, 1, 2, 3>>>>, topic0 |-> <<<<13, 14, 10, 13>>>>],
      [address |-> <<>>, topic0 |-> <<<<11, 14, 14, 15>>, <<0, 0, 0, 1>>>>],
      [address |-> <<>>, topic0 |-> <<<<11, 14, 14, 15>>, <<0, 0, 0, 1>>>>]>>

\* A transform payload of the request does not decode.
SomePayloadFails ==
    \E i \in 1..Len(request.transforms) : ~request.transforms[i].valid

\* A fetch request with its range blanked.
WithoutRange(req) == [req EXCEPT !.from = 0, !.to = None]

\* C20: the list of log filters is built once from the request's transforms,
\* before any fetch, and the same list, in the same order, is passed in the
\* archive fetch, the live finalized fetch and the hot subscription, whose
\* requests differ in from/to only; when a payload does not decode,
\* blocks() returns the failure and no fetch or subscription is issued.
C20_SameFiltersEveryFetch ==
    /\ [](/\ \A i \in 1..Len(fetches) :
                /\ fetches[i].req.logs = logs
                /\ WithoutRange(fetches[i].req) = WithoutRange(fetches[1].req)
          /\ (fetches /= <<>> /\ request.transforms = GoodTransforms) =>
                logs = GoodLogRequests
          /\ (fetches /= <<>> /\ request.transforms = <<>>) => logs = <<>>
          /\ (SomePayloadFails /\ pc /= "call") =>
                /\ pc = "call_failed"
                /\ err \in {"decode", "upstream"}
                /\ fetches = <<>>)
    /\ [][logs' /= logs => (pc = "call" /\ fetches' = <<>>)]_vars

\* C20 witness: the archive fetch, the live finalized fetch and the hot
\* subscription were issued, each with the three log filters.
C20_Witness ==
    /\ Len(fetches) = 3
    /\ \A i \in 1..3 : fetches[i].req.logs = GoodLogRequests
    /\ fetches[1].req.from /= fetches[2].req.from
    /\ fetches[2].req.from /= fetches[3].req.from

\* ------------------------------------------------------------------ C21
\* The step that ends Phase A: the archive's stream is exhausted and the
\* code after the loop runs.
PhaseAEnds == pc = "A_loop" /\ pc' \notin {"A_loop", "failed"}

\* C21: whenever Phase A's stop check runs with a stop height set, a head
\* marker exists: the check is evaluated on an established head marker and
\* never on an absent one, also when the archive returned no block.
C21_StopCheckHasHeadMarker ==
    [][(PhaseAEnds /\ to_block /= None) => (state /= None /\ pc' /= "panicked")]_vars

\* ------------------------------------------------------------------ C22
\* The step that opens the hot subscription.
HotSubscribes == pc = "C_enter" /\ pc' = "C_loop"

\* C22: at the hand-over to Phase C, whenever a head marker exists, from_block
\* is the head marker's height + 1, and the hot subscription's request starts
\* there and is anchored on that head marker.
C22_HotStartsAfterHeadMarker ==
    /\ [](pc = "C_enter" /\ state /= None => from_block = Unwrap(state).height + 1)
    /\ [][HotSubscribes =>
            /\ state /= None
            /\ Len(fetches') = Len(fetches) + 1
            /\ fetches'[Len(fetches')].src = "hot"
            /\ fetches'[Len(fetches')].req.from = Unwrap(state).height + 1
            /\ fetches'[Len(fetches')].anchor = state]_vars

\* C22 witness: Phases A and B both ran and yielded blocks, and the hot
\* subscription starts right after Phase B's head marker, on that marker.
C22_Witness ==
    /\ pc = "C_loop"
    /\ Len(fetches) = 3
    /\ \E i \in 1..Len(out) : out[i].phase = "A"
    /\ \E i \in 1..Len(out) : out[i].phase = "B"
    /\ fetches[3].src = "hot"
    /\ fetches[3].anchor = state
    /\ fetches[3].req.from = Unwrap(state).height + 1
    /\ Unwrap(state).height = rpc_height

====
